---- MODULE Spec2Model ----
(***************************************************************************)
(* Model of timer_lib.py (Timer, its context-manager protocol and the      *)
(* time_function wrapper).  A Timer object is a record of its two fields;  *)
(* each method is an operator from the object (and the clock reading) to   *)
(* the object after the call, the exception it raised and its return       *)
(* value.  Optional values (Python None) are sequences of length 0 or 1.   *)
(***************************************************************************)
EXTENDS Integers, Sequences, FiniteSets, TLC

\* ---- bounds ----
MaxClock == 3
MaxDepth == 2
MaxPairClock == 1
MaxArg == 2
MaxCoord == 2
TicksPerMicro == 3     \* clock readings per microsecond

\* ---- constants of timer_lib.py ----
DEFAULT_PRECISION == 6

\* ---- values ----
None == << >>
Some(v) == << v >>
Timers == {"t1"}
TimerPair == {"t1", "t2"}
NoExc == [kind |-> "none", site |-> "none"]
TimerExceptionKinds == {"AlreadyRunning", "NotRunning", "NeverRun"}
BodyErrors == {"SomeError"}
Funcs == {"succ", "twice", "inv"}
Args == 0..MaxArg

VARIABLES
    now,      \* the value time.perf_counter() returns when read
    timers,   \* timers[t]: the fields of Timer object t
    scopes,   \* stack of the timers whose `with` block is open (innermost last)
    exc,      \* the exception in flight, NoExc when none
    last,     \* the most recent call: operation, receiver, fields before, outcome
    hist,     \* per timer, since construction or the last reset: clock at
              \* the latest successful start, the (start, stop) clock readings
              \* of the latest successful stop, which of start/stop succeeded
    tf,       \* the activation of time_function: position, arguments, locals
    cf,       \* the activation of compare_functions: position, arguments, locals
    pt        \* the Point objects and the most recent call on one of them

vars == <<now, timers, scopes, exc, last, hist, tf, cf, pt>>

\* ---- class Timer ----
\* variant: the stored duration initialised to zero instead of None
Timer_init_zero == [start_time |-> None, elapsed_time |-> Some(0)]

Timer_init == [start_time |-> None, elapsed_time |-> None]

Result(self, e, r) == [self |-> self, exc |-> e, ret |-> r]

\* variant: start without the running check, restarting the measurement
start_restart(self, clock) ==
    Result([self EXCEPT !.start_time = Some(clock)], "none", None)

\* variant: start also discards the stored duration
start_clobber(self, clock) ==
    IF self.start_time # None
    THEN Result(self, "AlreadyRunning", None)
    ELSE Result([start_time |-> Some(clock), elapsed_time |-> None], "none", None)

start(self, clock) ==
    IF self.start_time # None
    THEN Result(self, "AlreadyRunning", None)
    ELSE Result([self EXCEPT !.start_time = Some(clock)], "none", None)

\* variant: stop discards the stored duration before it checks the state
stop_clearsFirst(self, clock) ==
    IF self.start_time = None
    THEN Result([self EXCEPT !.elapsed_time = None], "NotRunning", None)
    ELSE Result([start_time |-> None,
                 elapsed_time |-> Some(clock - self.start_time[1])], "none", None)

\* variant: the subtraction with its operands exchanged
stop_swapped(self, clock) ==
    IF self.start_time = None
    THEN Result(self, "NotRunning", None)
    ELSE Result([start_time |-> None,
                 elapsed_time |-> Some(self.start_time[1] - clock)], "none", None)

\* variant: stop stores the duration but keeps the start time
stop_keepsRunning(self, clock) ==
    IF self.start_time = None
    THEN Result(self, "NotRunning", None)
    ELSE Result([self EXCEPT !.elapsed_time = Some(clock - self.start_time[1])],
                "none", None)

stop(self, clock) ==
    IF self.start_time = None
    THEN Result(self, "NotRunning", None)
    ELSE Result([start_time |-> None,
                 elapsed_time |-> Some(clock - self.start_time[1])], "none", None)

\* variant: elapsed refuses to answer while the timer is running
elapsed_onlyIdle(self) ==
    IF self.elapsed_time = None \/ self.start_time # None
    THEN Result(self, "NeverRun", None)
    ELSE Result(self, "none", self.elapsed_time)

elapsed(self) ==
    IF self.elapsed_time = None
    THEN Result(self, "NeverRun", None)
    ELSE Result(self, "none", self.elapsed_time)

\* variant: reset clears the start time only
reset_partial(self) == Result([self EXCEPT !.start_time = None], "none", None)

reset(self) == Result(Timer_init, "none", None)

\* variant: running judged by the stored duration
is_running_byElapsed(self) == Result(self, "none", Some(self.elapsed_time # None))

is_running(self) == Result(self, "none", Some(self.start_time # None))

\* f"{v:.{DEFAULT_PRECISION}f} seconds" for a duration of v clock readings:
\* v is rounded to a whole number of 10^-DEFAULT_PRECISION seconds and
\* written as its integer part and DEFAULT_PRECISION decimals
Format(v) ==
    LET n == (2 * v + TicksPerMicro) \div (2 * TicksPerMicro)
    IN  [text |-> "seconds",
         whole |-> n \div (10 ^ DEFAULT_PRECISION),
         frac |-> n % (10 ^ DEFAULT_PRECISION)]

NotYetRun == [text |-> "Timer has not run yet", whole |-> 0, frac |-> 0]

\* variant: the sentinel chosen by the running state
str_byState(self) ==
    IF self.start_time # None \/ self.elapsed_time = None
    THEN Result(self, "none", Some(NotYetRun))
    ELSE Result(self, "none", Some(Format(self.elapsed_time[1])))

\* __str__
str(self) ==
    IF self.elapsed_time = None
    THEN Result(self, "none", Some(NotYetRun))
    ELSE Result(self, "none", Some(Format(self.elapsed_time[1])))

\* __repr__
repr(self) ==
    Result(self, "none",
           Some([running |-> is_running(self).ret[1], elapsed |-> self.elapsed_time]))

\* variant: __enter__ tolerates a timer that is already running
enter_reentrant(self, clock) ==
    IF self.start_time # None
    THEN Result(self, "none", Some("self"))
    ELSE Result([self EXCEPT !.start_time = Some(clock)], "none", Some("self"))

enter(self, clock) ==
    LET r == start(self, clock)
    IN  IF r.exc # "none" THEN r ELSE Result(r.self, "none", Some("self"))

\* variant: __exit__ stops the timer only when the block ended normally
exit_onlyOnSuccess(self, clock, exc_val) ==
    IF exc_val = NoExc THEN stop(self, clock) ELSE Result(self, "none", None)

exit(self, clock, exc_val) == stop(self, clock)

\* ---- the `with` statement around a Timer ----
\* the exception that leaves the statement once __exit__ has run
WithEscape(r, exc_val) ==
    IF r.exc # "none" THEN [kind |-> r.exc, site |-> "exit"]
    ELSE IF r.ret = Some(TRUE) THEN NoExc
    ELSE exc_val

\* ---- bookkeeping of what was called ----
Raised(r, site) == IF r.exc = "none" THEN NoExc ELSE [kind |-> r.exc, site |-> site]

\* op on timer t gave r; body is the exception in flight when the call was
\* made, out the exception in flight when it is over
Call(op, t, r, body, out) ==
    [op |-> op, t |-> t, pre |-> timers[t], stack |-> scopes,
     exc |-> r.exc, ret |-> r.ret, body |-> body, out |-> out]

\* phase: the latest of start/stop that succeeded since construction or the
\* last reset; alternating: no two of them in a row were the same so far;
\* stopped: a stop has succeeded since construction or the last reset
\* scope: whether the timer's latest `with` block is open or closed;
\* within: the timers whose latest block was open when this one's was entered;
\* clean: no start, stop or reset was called with success on the timer
\* since that block was entered
HistInit ==
    [startAt |-> None, cycle |-> None,
     phase |-> "none", alternating |-> TRUE, stopped |-> FALSE,
     scope |-> "none", within |-> {}, clean |-> TRUE]

Range(q) == {q[i] : i \in 1..Len(q)}

HistTouch(h, r) == IF r.exc = "none" THEN [h EXCEPT !.clean = FALSE] ELSE h

\* the block of timer t is entered below the open blocks in stack
HistEnter(hs, t, r, stack) ==
    IF r.exc # "none" THEN hs
    ELSE [u \in DOMAIN hs |->
            IF u = t
            THEN [hs[u] EXCEPT !.scope = "open", !.clean = TRUE,
                               !.within = Range(stack) \ {t}]
            ELSE [hs[u] EXCEPT !.within = @ \ {t}]]

HistExit(h) == [h EXCEPT !.scope = "closed"]

HistStart(h, r, clock) ==
    IF r.exc = "none"
    THEN [h EXCEPT !.startAt = Some(clock), !.phase = "start",
                   !.alternating = @ /\ h.phase # "start"]
    ELSE h

HistStop(h, r, clock) ==
    IF r.exc = "none"
    THEN [h EXCEPT !.cycle = Some(<<h.startAt[1], clock>>), !.phase = "stop",
                   !.alternating = @ /\ h.phase = "start", !.stopped = TRUE]
    ELSE h

HistReset(h, r) ==
    IF r.exc = "none"
    THEN [h EXCEPT !.startAt = None, !.cycle = None,
                   !.phase = "none", !.stopped = FALSE]
    ELSE h

\* ---- time_function(func, *args) ----
\* the callables handed to time_function, by what a call of them does
Apply(f, a) ==
    CASE f = "succ"  -> [exc |-> "none", ret |-> a + 1]
      [] f = "twice" -> [exc |-> "none", ret |-> 2 * a]
      [] f = "inv"   -> IF a = 0 THEN [exc |-> "ZeroDivisionError", ret |-> 0]
                                 ELSE [exc |-> "none", ret |-> 12 \div a]

TFIdle ==
    [pc |-> "idle", func |-> "none", args |-> 0, timer |-> None, passed |-> None,
     result |-> None, ret |-> None, exc |-> NoExc, log |-> << >>,
     t0 |-> None, t1 |-> None]

\* the activation once `timer = Timer()` has run
TFFrame(f, a) ==
    [TFIdle EXCEPT !.pc = "new", !.func = f, !.args = a,
                   !.timer = Some(Timer_init), !.log = <<"Timer">>]

TFFail(kind, site) == [tf EXCEPT !.pc = "raised", !.exc = [kind |-> kind, site |-> site]]

\* ---- compare_functions(func1, func2, *args) ----
Min(a, b) == IF a <= b THEN a ELSE b
Max(a, b) == IF a >= b THEN a ELSE b

\* float('inf'), and a quotient kept as numerator and denominator
Inf == [inf |-> TRUE, num |-> 1, den |-> 0]
Quotient(a, b) == [inf |-> FALSE, num |-> a, den |-> b]

\* a / b, which raises for a zero divisor
Div(a, b) ==
    IF b = 0 THEN [exc |-> "ZeroDivisionError", val |-> Inf]
    ELSE [exc |-> "none", val |-> Quotient(a, b)]

\* variant: <= in place of <
Faster_orEqual(time1, time2) == IF time1 <= time2 THEN "func1" ELSE "func2"

Faster(time1, time2) == IF time1 < time2 THEN "func1" ELSE "func2"

\* variant: the guard admits a zero divisor
Speedup_nonNegative(time1, time2) ==
    IF Min(time1, time2) >= 0 THEN Div(Max(time1, time2), Min(time1, time2))
    ELSE [exc |-> "none", val |-> Inf]

Speedup(time1, time2) ==
    IF Min(time1, time2) > 0 THEN Div(Max(time1, time2), Min(time1, time2))
    ELSE [exc |-> "none", val |-> Inf]

CFIdle ==
    [pc |-> "idle", func |-> <<"none", "none">>, args |-> 0,
     result |-> <<None, None>>, time |-> <<None, None>>,
     calls |-> << >>, ret |-> None, exc |-> NoExc]

\* ---- class Point (point_class.py) ----
PointNames == {"p1", "p2"}
Coords == (0 - MaxCoord)..MaxCoord
Deltas == {0 - 1, 0, 1}
NonPoints == {[type |-> "int", v |-> 5]}

Point(a, b) == [type |-> "Point", x |-> a, y |-> b]

translate(self, deltax, deltay) ==
    Result([self EXCEPT !.x = @ + deltax, !.y = @ + deltay], "none", None)

\* variant: the sum accumulated in the receiver, which is returned
add_inPlace(self, other) ==
    IF other.type = "Point"
    THEN Result(Point(self.x + other.x, self.y + other.y), "none",
                Some(Point(self.x + other.x, self.y + other.y)))
    ELSE Result(self, "TypeError", None)

add(self, other) ==
    IF other.type = "Point"
    THEN Result(self, "none", Some(Point(self.x + other.x, self.y + other.y)))
    ELSE Result(self, "TypeError", None)

PCall(op, p, o, other, r) ==
    [op |-> op, self |-> p, oref |-> o, other |-> other, pre |-> pt.objs,
     exc |-> r.exc, ret |-> r.ret]

PInit ==
    [objs |-> [p \in PointNames |-> Point(0, 0)],
     last |-> [op |-> "init", self |-> "p1", oref |-> "none", other |-> Point(0, 0),
               pre |-> [p \in PointNames |-> Point(0, 0)],
               exc |-> "none", ret |-> None]]

Init ==
    /\ now = 0
    /\ timers = [t \in Timers |-> Timer_init]
    /\ scopes = << >>
    /\ exc = NoExc
    /\ last = [op |-> "init", t |-> "t1", pre |-> Timer_init, stack |-> << >>,
               exc |-> "none", ret |-> None, body |-> NoExc, out |-> NoExc]
    /\ hist = [t \in Timers |-> HistInit]
    /\ tf = TFIdle
    /\ cf = CFIdle
    /\ pt = PInit

\* two Timer objects side by side
InitPair ==
    /\ now = 0
    /\ timers = [t \in TimerPair |-> Timer_init]
    /\ scopes = << >>
    /\ exc = NoExc
    /\ last = [op |-> "init", t |-> "t1", pre |-> Timer_init, stack |-> << >>,
               exc |-> "none", ret |-> None, body |-> NoExc, out |-> NoExc]
    /\ hist = [t \in TimerPair |-> HistInit]
    /\ tf = TFIdle
    /\ cf = CFIdle
    /\ pt = PInit

TickPair ==
    /\ now < MaxPairClock
    /\ now' = now + 1
    /\ UNCHANGED <<timers, scopes, exc, last, hist, tf, cf, pt>>

\* the monotonic clock advances
Tick ==
    /\ now < MaxClock
    /\ now' = now + 1
    /\ UNCHANGED <<timers, scopes, exc, last, hist, tf, cf, pt>>

Start(t) ==
    /\ exc = NoExc
    /\ LET r == start(timers[t], now)
       IN  /\ timers' = [timers EXCEPT ![t] = r.self]
           /\ exc' = Raised(r, "call")
           /\ last' = Call("start", t, r, NoExc, Raised(r, "call"))
           /\ hist' = [hist EXCEPT ![t] = HistTouch(HistStart(@, r, now), r)]
    /\ UNCHANGED <<now, scopes, tf, cf, pt>>

Stop(t) ==
    /\ exc = NoExc
    /\ LET r == stop(timers[t], now)
       IN  /\ timers' = [timers EXCEPT ![t] = r.self]
           /\ exc' = Raised(r, "call")
           /\ last' = Call("stop", t, r, NoExc, Raised(r, "call"))
           /\ hist' = [hist EXCEPT ![t] = HistTouch(HistStop(@, r, now), r)]
    /\ UNCHANGED <<now, scopes, tf, cf, pt>>

Elapsed(t) ==
    /\ exc = NoExc
    /\ LET r == elapsed(timers[t])
       IN  /\ timers' = [timers EXCEPT ![t] = r.self]
           /\ exc' = Raised(r, "call")
           /\ last' = Call("elapsed", t, r, NoExc, Raised(r, "call"))
    /\ UNCHANGED <<now, scopes, hist, tf, cf, pt>>

\* variant: the two fields kept on the class, shared by all timers
Reset_shared(t) ==
    /\ exc = NoExc
    /\ LET r == reset(timers[t])
       IN  /\ timers' = [u \in DOMAIN timers |-> r.self]
           /\ exc' = Raised(r, "call")
           /\ last' = Call("reset", t, r, NoExc, Raised(r, "call"))
           /\ hist' = [hist EXCEPT ![t] = HistTouch(HistReset(@, r), r)]
    /\ UNCHANGED <<now, scopes, tf, cf, pt>>

Reset(t) ==
    /\ exc = NoExc
    /\ LET r == reset(timers[t])
       IN  /\ timers' = [timers EXCEPT ![t] = r.self]
           /\ exc' = Raised(r, "call")
           /\ last' = Call("reset", t, r, NoExc, Raised(r, "call"))
           /\ hist' = [hist EXCEPT ![t] = HistTouch(HistReset(@, r), r)]
    /\ UNCHANGED <<now, scopes, tf, cf, pt>>

IsRunning(t) ==
    /\ exc = NoExc
    /\ LET r == is_running(timers[t])
       IN  /\ timers' = [timers EXCEPT ![t] = r.self]
           /\ exc' = Raised(r, "call")
           /\ last' = Call("is_running", t, r, NoExc, Raised(r, "call"))
    /\ UNCHANGED <<now, scopes, hist, tf, cf, pt>>

Str(t) ==
    /\ exc = NoExc
    /\ LET r == str(timers[t])
       IN  /\ timers' = [timers EXCEPT ![t] = r.self]
           /\ exc' = Raised(r, "call")
           /\ last' = Call("str", t, r, NoExc, Raised(r, "call"))
    /\ UNCHANGED <<now, scopes, hist, tf, cf, pt>>

Repr(t) ==
    /\ exc = NoExc
    /\ LET r == repr(timers[t])
       IN  /\ timers' = [timers EXCEPT ![t] = r.self]
           /\ exc' = Raised(r, "call")
           /\ last' = Call("repr", t, r, NoExc, Raised(r, "call"))
    /\ UNCHANGED <<now, scopes, hist, tf, cf, pt>>

\* `with t:` is reached: __enter__ runs; the block is entered only if it returns
Enter(t) ==
    /\ exc = NoExc
    /\ Len(scopes) < MaxDepth
    /\ LET r == enter(timers[t], now)
       IN  /\ timers' = [timers EXCEPT ![t] = r.self]
           /\ exc' = Raised(r, "enter")
           /\ last' = Call("enter", t, r, NoExc, Raised(r, "enter"))
           /\ hist' = HistEnter([hist EXCEPT ![t] = HistStart(@, r, now)],
                                t, r, scopes)
           /\ scopes' = IF r.exc = "none" THEN Append(scopes, t) ELSE scopes
    /\ UNCHANGED <<now, tf, cf, pt>>

\* `with t:` for a timer that has no open block
EnterOther(t) ==
    /\ t \notin Range(scopes)
    /\ Enter(t)

\* the code of the innermost open block raises an error of its own
Raise(e) ==
    /\ exc = NoExc
    /\ Len(scopes) > 0
    /\ exc' = [kind |-> e, site |-> "body"]
    /\ UNCHANGED <<now, timers, scopes, last, hist, tf, cf, pt>>

\* an except clause of the running code handles the exception in flight
Catch ==
    /\ exc # NoExc
    /\ exc' = NoExc
    /\ UNCHANGED <<now, timers, scopes, last, hist, tf, cf, pt>>

\* the innermost open block is left, normally (exc = NoExc) or by the
\* exception in flight: __exit__ runs and decides what leaves the statement
Exit ==
    /\ Len(scopes) > 0
    /\ LET t == scopes[Len(scopes)]
           r == exit(timers[t], now, exc)
       IN  /\ timers' = [timers EXCEPT ![t] = r.self]
           /\ exc' = WithEscape(r, exc)
           /\ last' = Call("exit", t, r, exc, WithEscape(r, exc))
           /\ hist' = [hist EXCEPT ![t] = HistExit(HistStop(@, r, now))]
    /\ scopes' = SubSeq(scopes, 1, Len(scopes) - 1)
    /\ UNCHANGED <<now, tf, cf, pt>>

\* time_function is called: timer = Timer()
TFCall(f, a) ==
    /\ tf.pc \in {"idle", "done", "raised"}
    /\ tf' = TFFrame(f, a)
    /\ UNCHANGED <<now, timers, scopes, exc, last, hist, cf, pt>>

\* timer.start()
TFStart ==
    /\ tf.pc = "new"
    /\ LET r == start(tf.timer[1], now)
       IN  tf' = IF r.exc # "none" THEN TFFail(r.exc, "start")
                 ELSE [tf EXCEPT !.pc = "running", !.timer = Some(r.self),
                                 !.t0 = Some(now), !.log = Append(@, "start")]
    /\ UNCHANGED <<now, timers, scopes, exc, last, hist, cf, pt>>

\* variant: the call wrapped in try/finally, stopping the timer on failure too
TFInvoke_finally ==
    /\ tf.pc = "running"
    /\ LET c == Apply(tf.func, tf.args)
       IN  tf' = IF c.exc # "none"
                 THEN [TFFail(c.exc, "func") EXCEPT !.passed = Some(tf.args),
                           !.timer = Some(stop(tf.timer[1], now).self),
                           !.log = Append(Append(@, "func"), "stop")]
                 ELSE [tf EXCEPT !.pc = "returned", !.result = Some(c.ret),
                                 !.passed = Some(tf.args), !.log = Append(@, "func")]
    /\ UNCHANGED <<now, timers, scopes, exc, last, hist, cf, pt>>

\* result = func(*args, **kwargs), which returns or raises
TFInvoke ==
    /\ tf.pc = "running"
    /\ LET c == Apply(tf.func, tf.args)
       IN  tf' = IF c.exc # "none"
                 THEN [TFFail(c.exc, "func") EXCEPT !.passed = Some(tf.args),
                                                    !.log = Append(@, "func")]
                 ELSE [tf EXCEPT !.pc = "returned", !.result = Some(c.ret),
                                 !.passed = Some(tf.args), !.log = Append(@, "func")]
    /\ UNCHANGED <<now, timers, scopes, exc, last, hist, cf, pt>>

\* variant: the stop call left out
TFStop_skip ==
    /\ tf.pc = "returned"
    /\ tf' = [tf EXCEPT !.pc = "stopped"]
    /\ UNCHANGED <<now, timers, scopes, exc, last, hist, cf, pt>>

\* timer.stop()
TFStop ==
    /\ tf.pc = "returned"
    /\ LET r == stop(tf.timer[1], now)
       IN  tf' = IF r.exc # "none" THEN TFFail(r.exc, "stop")
                 ELSE [tf EXCEPT !.pc = "stopped", !.timer = Some(r.self),
                                 !.t1 = Some(now), !.log = Append(@, "stop")]
    /\ UNCHANGED <<now, timers, scopes, exc, last, hist, cf, pt>>

\* return result, timer.elapsed()
TFReturn ==
    /\ tf.pc = "stopped"
    /\ LET r == elapsed(tf.timer[1])
       IN  tf' = IF r.exc # "none" THEN TFFail(r.exc, "elapsed")
                 ELSE [tf EXCEPT !.pc = "done", !.log = Append(@, "elapsed"),
                                 !.ret = Some(<<tf.result[1], r.ret[1]>>)]
    /\ UNCHANGED <<now, timers, scopes, exc, last, hist, cf, pt>>

\* compare_functions is called
CFCall(f1, f2, a) ==
    /\ cf.pc \in {"idle", "done", "raised"}
    /\ cf' = [CFIdle EXCEPT !.pc = "call1", !.func = <<f1, f2>>, !.args = a]
    /\ UNCHANGED <<now, timers, scopes, exc, last, hist, tf, pt>>

\* variant: the first callable is timed both times
CFTime_first(i) ==
    /\ cf.pc = (IF i = 1 THEN "call1" ELSE "call2")
    /\ tf' = TFFrame(cf.func[1], cf.args)
    /\ cf' = [cf EXCEPT !.pc = (IF i = 1 THEN "in1" ELSE "in2"),
                        !.calls = Append(@, [which |-> i, func |-> cf.func[1],
                                             args |-> cf.args,
                                             timer |-> Timer_init])]
    /\ UNCHANGED <<now, timers, scopes, exc, last, hist, pt>>

\* time_function(func_i, *args, **kwargs) is entered
CFTime(i) ==
    /\ cf.pc = (IF i = 1 THEN "call1" ELSE "call2")
    /\ tf' = TFFrame(cf.func[i], cf.args)
    /\ cf' = [cf EXCEPT !.pc = (IF i = 1 THEN "in1" ELSE "in2"),
                        !.calls = Append(@, [which |-> i, func |-> cf.func[i],
                                             args |-> cf.args,
                                             timer |-> tf'.timer[1]])]
    /\ UNCHANGED <<now, timers, scopes, exc, last, hist, pt>>

\* time_function is over: result_i, time_i are bound, or its exception
\* leaves compare_functions
CFBack(i) ==
    /\ cf.pc = (IF i = 1 THEN "in1" ELSE "in2")
    /\ tf.pc \in {"done", "raised"}
    /\ cf' = IF tf.pc = "raised"
             THEN [cf EXCEPT !.pc = "raised", !.exc = tf.exc]
             ELSE [cf EXCEPT !.pc = (IF i = 1 THEN "call2" ELSE "compare"),
                             !.result[i] = Some(tf.ret[1][1]),
                             !.time[i] = Some(tf.ret[1][2])]
    /\ UNCHANGED <<now, timers, scopes, exc, last, hist, tf, pt>>

\* faster and speedup are computed and the dictionary is returned
CFReturn ==
    /\ cf.pc = "compare"
    /\ LET time1 == cf.time[1][1]
           time2 == cf.time[2][1]
           q == Speedup(time1, time2)
       IN  cf' = IF q.exc # "none"
                 THEN [cf EXCEPT !.pc = "raised",
                                 !.exc = [kind |-> q.exc, site |-> "compare"]]
                 ELSE [cf EXCEPT !.pc = "done",
                                 !.ret = Some([result1 |-> cf.result[1][1],
                                               result2 |-> cf.result[2][1],
                                               time1 |-> time1,
                                               time2 |-> time2,
                                               faster |-> Faster(time1, time2),
                                               speedup |-> q.val])]
    /\ UNCHANGED <<now, timers, scopes, exc, last, hist, tf, pt>>

\* p.translate(dx, dy)
PTranslate(p, dx, dy) ==
    /\ pt.objs[p].x + dx \in Coords
    /\ pt.objs[p].y + dy \in Coords
    /\ LET r == translate(pt.objs[p], dx, dy)
       IN  pt' = [objs |-> [pt.objs EXCEPT ![p] = r.self],
                  last |-> PCall("translate", p, "none", Point(dx, dy), r)]
    /\ UNCHANGED <<now, timers, scopes, exc, last, hist, tf, cf>>

\* p + o for the Point o (possibly p itself)
PAdd(p, o) ==
    /\ LET r == add(pt.objs[p], pt.objs[o])
       IN  pt' = [objs |-> [pt.objs EXCEPT ![p] = r.self],
                  last |-> PCall("add", p, o, pt.objs[o], r)]
    /\ UNCHANGED <<now, timers, scopes, exc, last, hist, tf, cf>>

\* p + v for a value v that is not a Point
PAddOther(p, v) ==
    /\ LET r == add(pt.objs[p], v)
       IN  pt' = [objs |-> [pt.objs EXCEPT ![p] = r.self],
                  last |-> PCall("add", p, "none", v, r)]
    /\ UNCHANGED <<now, timers, scopes, exc, last, hist, tf, cf>>

Next ==
    \/ Tick
    \/ \E t \in Timers : Start(t)
    \/ \E t \in Timers : Stop(t)
    \/ \E t \in Timers : Elapsed(t)
    \/ \E t \in Timers : Reset(t)
    \/ \E t \in Timers : IsRunning(t)
    \/ \E t \in Timers : Str(t)
    \/ \E t \in Timers : Repr(t)
    \/ \E t \in Timers : Enter(t)
    \/ \E e \in BodyErrors : Raise(e)
    \/ Catch
    \/ Exit

Spec == Init /\ [][Next]_vars

NextWrap ==
    \/ Tick
    \/ \E f \in Funcs, a \in Args : TFCall(f, a)
    \/ TFStart
    \/ TFInvoke
    \/ TFStop
    \/ TFReturn

NextPair ==
    \/ TickPair
    \/ \E t \in TimerPair : Start(t)
    \/ \E t \in TimerPair : Stop(t)
    \/ \E t \in TimerPair : Elapsed(t)
    \/ \E t \in TimerPair : Reset(t)
    \/ \E t \in TimerPair : IsRunning(t)
    \/ \E t \in TimerPair : Str(t)
    \/ \E t \in TimerPair : Repr(t)
    \/ \E t \in TimerPair : EnterOther(t)
    \/ \E e \in BodyErrors : Raise(e)
    \/ Catch
    \/ Exit

SpecPair == InitPair /\ [][NextPair]_vars

SpecWrap == Init /\ [][NextWrap]_vars

NextCompare ==
    \/ Tick
    \/ \E f1 \in Funcs, f2 \in Funcs, a \in Args : CFCall(f1, f2, a)
    \/ \E i \in {1, 2} : CFTime(i)
    \/ TFStart
    \/ TFInvoke
    \/ TFStop
    \/ TFReturn
    \/ \E i \in {1, 2} : CFBack(i)
    \/ CFReturn

SpecCompare == Init /\ [][NextCompare]_vars

NextPoint ==
    \/ \E p \in PointNames, dx \in Deltas, dy \in Deltas : PTranslate(p, dx, dy)
    \/ \E p \in PointNames, o \in PointNames : PAdd(p, o)
    \/ \E p \in PointNames, v \in NonPoints : PAddOther(p, v)

SpecPoint == Init /\ [][NextPoint]_vars

\* ---- properties of Timer ----
Running(tm) == tm.start_time # None
After(op) == last.op = op

\* C1: start on a Running timer raises AlreadyRunning and leaves both fields
\* as they were, the start time still being the clock reading of the start
\* that succeeded; start on an Idle timer raises nothing and leaves it Running.
C1_StartGuard ==
    After("start") =>
        IF Running(last.pre)
        THEN /\ last.exc = "AlreadyRunning"
             /\ last.out.kind \in TimerExceptionKinds
             /\ timers[last.t] = last.pre
             /\ Running(timers[last.t])
             /\ timers[last.t].start_time = hist[last.t].startAt
        ELSE /\ last.exc = "none"
             /\ Running(timers[last.t])

C1_Witness ==
    /\ After("start")
    /\ last.exc = "AlreadyRunning"
    /\ last.pre.elapsed_time # None
    /\ now > last.pre.start_time[1]

\* C2: stop on an Idle timer raises NotRunning and leaves the timer Idle with
\* the stored duration (present or absent) exactly as before the call.
C2_StopGuard ==
    (After("stop") /\ ~Running(last.pre)) =>
        /\ last.exc = "NotRunning"
        /\ last.out.kind \in TimerExceptionKinds
        /\ ~Running(timers[last.t])
        /\ timers[last.t].elapsed_time = last.pre.elapsed_time

C2_Witness ==
    /\ After("stop")
    /\ ~Running(last.pre)
    /\ last.exc = "NotRunning"
    /\ last.pre.elapsed_time # None

\* C3: a stored duration is always (stop reading - start reading) of the
\* latest successful stop and the start it closed; it changes only by a
\* successful stop (overwritten) or by reset (cleared).
C3_StoredIsLastCycle ==
    \A t \in DOMAIN timers :
        timers[t].elapsed_time # None =>
            /\ hist[t].cycle # None
            /\ timers[t].elapsed_time[1] = hist[t].cycle[1][2] - hist[t].cycle[1][1]

C3_ChangesOnlyByStopOrReset ==
    \A t \in DOMAIN timers :
        timers'[t].elapsed_time # timers[t].elapsed_time =>
            /\ last'.t = t
            /\ \/ /\ last'.op \in {"stop", "exit"}
                  /\ last'.exc = "none"
                  /\ Running(last'.pre)
                  /\ timers'[t].elapsed_time # None
               \/ /\ last'.op = "reset"
                  /\ timers'[t].elapsed_time = None

C3_ElapsedInvariant ==
    []C3_StoredIsLastCycle /\ [][C3_ChangesOnlyByStopOrReset]_vars

\* a duration stored by an earlier cycle is still there while the next one runs
C3_Witness ==
    \E t \in DOMAIN timers :
        /\ Running(timers[t])
        /\ timers[t].elapsed_time # None
        /\ timers[t].elapsed_time[1] > 0
        /\ hist[t].startAt[1] > hist[t].cycle[1][2]

\* C4: a new Timer is Idle with no stored duration, is_running() is false and
\* elapsed() raises NeverRun; elapsed() raises until a stop has succeeded.
C4_FreshTimer ==
    /\ ~Running(Timer_init)
    /\ is_running(Timer_init).ret = Some(FALSE)
    /\ elapsed(Timer_init).exc = "NeverRun"
    /\ \A t \in DOMAIN timers :
          /\ hist[t] = HistInit => timers[t] = Timer_init
          /\ hist[t].cycle = None =>
                /\ timers[t].elapsed_time = None
                /\ elapsed(timers[t]).exc = "NeverRun"
                /\ (After("elapsed") /\ last.t = t) =>
                      (last.exc = "NeverRun" /\ last.ret = None)

C4_Witness ==
    /\ After("elapsed")
    /\ last.exc = "NeverRun"
    /\ hist[last.t].cycle = None
    /\ Running(timers[last.t])

\* C5: reset raises nothing in any reachable state, and right after it the
\* timer equals a new one: is_running() is false and elapsed() raises NeverRun.
C5_ResetToFresh ==
    /\ \A t \in DOMAIN timers : reset(timers[t]).exc = "none"
    /\ After("reset") =>
          /\ last.exc = "none"
          /\ last.out = NoExc
          /\ timers[last.t] = Timer_init
          /\ is_running(timers[last.t]).ret = Some(FALSE)
          /\ elapsed(timers[last.t]).exc = "NeverRun"

C5_Witness ==
    /\ After("reset")
    /\ Running(last.pre)
    /\ last.pre.elapsed_time # None

\* C6: with the clock never moving backward, a value returned by elapsed() is
\* not negative and not less than the advance of the clock between the start
\* and the stop of the cycle it measures.
C6_ElapsedLowerBound ==
    (After("elapsed") /\ last.exc = "none") =>
        /\ last.ret # None
        /\ last.ret[1] >= 0
        /\ last.ret[1] >= hist[last.t].cycle[1][2] - hist[last.t].cycle[1][1]

C6_Witness ==
    /\ After("elapsed")
    /\ last.exc = "none"
    /\ last.ret[1] >= 2

\* C7 as stated: after a block is left, by an error or normally, the timer is
\* Idle, holds a stored duration, and an error of the block is the error that
\* leaves the statement.
C7_AsStated ==
    After("exit") =>
        /\ ~Running(timers[last.t])
        /\ timers[last.t].elapsed_time # None
        /\ last.body # NoExc => last.out = last.body

\* C7 amended: after a block is left the timer is Idle; if the timer was
\* still Running when the block was left, __exit__'s stop succeeded, a
\* duration is stored and what leaves the statement is exactly what left the
\* block (the block's error, or nothing).
C7_ExitStopsRunningTimer ==
    After("exit") =>
        /\ ~Running(timers[last.t])
        /\ Running(last.pre) =>
              /\ last.exc = "none"
              /\ timers[last.t].elapsed_time # None
              /\ timers[last.t].elapsed_time[1] >= 0
              /\ last.out = last.body

C7_Witness ==
    /\ After("exit")
    /\ Running(last.pre)
    /\ last.body = [kind |-> "SomeError", site |-> "body"]
    /\ last.out = last.body
    /\ timers[last.t].elapsed_time # None

\* C8: whenever a block fails with error E, E itself leaves the statement,
\* stop having completed, whatever the block did to the timer before failing.
C8_BodyErrorEscapes ==
    (After("exit") /\ last.body # NoExc) =>
        /\ last.exc = "none"
        /\ last.out = last.body

\* C9: __enter__ on a Running timer raises AlreadyRunning, opens no block (so
\* no __exit__ will run for it) and leaves both fields as they were.
C9_EnterOnRunning ==
    (After("enter") /\ Running(last.pre)) =>
        /\ last.exc = "AlreadyRunning"
        /\ last.out = [kind |-> "AlreadyRunning", site |-> "enter"]
        /\ scopes = last.stack
        /\ timers[last.t] = last.pre
        /\ timers[last.t].start_time = hist[last.t].startAt

\* the inner `with` on the timer of the enclosing block
C9_Witness ==
    /\ After("enter")
    /\ last.exc = "AlreadyRunning"
    /\ Len(scopes) = 1
    /\ scopes[1] = last.t
    /\ last.pre.elapsed_time # None
\* ---- properties of time_function ----
TFSequence == <<"Timer", "start", "func", "stop", "elapsed">>

TFReturnsNormally == Apply(tf.func, tf.args).exc = "none"

\* C10: for a callable that returns normally, time_function performs exactly
\* Timer(), start, one call with the supplied arguments, stop, elapsed, in
\* this order; it returns (the callable's value, stop reading - start
\* reading) and raises no exception of the Timer.
C10_TimeFunction ==
    /\ tf.exc.kind \notin TimerExceptionKinds
    /\ (tf.pc # "idle" /\ TFReturnsNormally) =>
          /\ tf.pc # "raised"
          /\ tf.log = SubSeq(TFSequence, 1, Len(tf.log))
          /\ tf.passed # None => tf.passed = Some(tf.args)
    /\ tf.pc = "done" =>
          /\ tf.log = TFSequence
          /\ tf.passed = Some(tf.args)
          /\ tf.ret = Some(<<Apply(tf.func, tf.args).ret, tf.t1[1] - tf.t0[1]>>)
          /\ tf.t1[1] >= tf.t0[1]
          /\ tf.exc = NoExc

C10_Witness ==
    /\ tf.pc = "done"
    /\ tf.func = "inv"
    /\ tf.ret = Some(<<6, 2>>)
\* C11: when the callable raises, the same exception leaves time_function, no
\* pair is returned, and stop is never called: the internal timer is left
\* Running with no stored duration.
C11_FailingCallable ==
    (tf.pc # "idle" /\ ~TFReturnsNormally) =>
        /\ tf.pc \in {"new", "running", "raised"}
        /\ tf.ret = None
        /\ \A i \in 1..Len(tf.log) : tf.log[i] \notin {"stop", "elapsed"}
        /\ tf.pc = "raised" =>
              /\ tf.exc = [kind |-> Apply(tf.func, tf.args).exc, site |-> "func"]
              /\ tf.log = <<"Timer", "start", "func">>
              /\ tf.passed = Some(tf.args)
              /\ Running(tf.timer[1])
              /\ tf.timer[1].start_time = tf.t0
              /\ tf.timer[1].elapsed_time = None

C11_Witness ==
    /\ tf.pc = "raised"
    /\ tf.exc.kind = "ZeroDivisionError"
    /\ Running(tf.timer[1])
    /\ now > tf.t0[1]
\* ---- properties of compare_functions ----
CFTime1 == cf.ret[1].time1
CFTime2 == cf.ret[1].time2

\* C12 as stated: faster names the callable with the strictly smaller
\* duration, and names the first one when the durations are equal.
C12_TiesFavorFirst ==
    cf.pc = "done" =>
        /\ CFTime1 < CFTime2 => cf.ret[1].faster = "func1"
        /\ CFTime2 < CFTime1 => cf.ret[1].faster = "func2"
        /\ CFTime1 = CFTime2 => cf.ret[1].faster = "func1"

\* C12 amended: faster names the callable with the strictly smaller duration,
\* and names the second one ("func2") when the durations are equal.
C12_TiesGoToSecond ==
    cf.pc = "done" =>
        /\ cf.ret[1].faster \in {"func1", "func2"}
        /\ CFTime1 < CFTime2 => cf.ret[1].faster = "func1"
        /\ CFTime2 < CFTime1 => cf.ret[1].faster = "func2"
        /\ CFTime1 = CFTime2 => cf.ret[1].faster = "func2"

C12_Witness ==
    /\ cf.pc = "done"
    /\ CFTime1 = CFTime2
    /\ CFTime1 > 0
    /\ cf.ret[1].faster = "func2"

\* C13: for durations that are not negative compare_functions raises no
\* division error; speedup is infinity when the smaller duration is zero
\* (both zero included), otherwise the larger divided by the smaller, which
\* is at least 1.
C13_Speedup ==
    /\ \A a \in 0..MaxClock, b \in 0..MaxClock : Speedup(a, b).exc = "none"
    /\ cf.exc.site # "compare"
    /\ cf.pc = "done" =>
          /\ CFTime1 >= 0 /\ CFTime2 >= 0
          /\ IF Min(CFTime1, CFTime2) = 0
             THEN cf.ret[1].speedup = Inf
             ELSE /\ ~cf.ret[1].speedup.inf
                  /\ cf.ret[1].speedup.num = Max(CFTime1, CFTime2)
                  /\ cf.ret[1].speedup.den = Min(CFTime1, CFTime2)
                  /\ cf.ret[1].speedup.den > 0
                  /\ cf.ret[1].speedup.num >= cf.ret[1].speedup.den

C13_Witness ==
    /\ cf.pc = "done"
    /\ CFTime1 = 0
    /\ CFTime2 = 0
    /\ cf.ret[1].speedup = Inf

\* the activation of time_function that just returned was the i-th call
CFFrameMatches(i) ==
    /\ tf.pc = "done"
    /\ tf.func = cf.func[i]
    /\ tf.passed = Some(cf.args)
    /\ tf.log = TFSequence
    /\ cf.result[i] = Some(Apply(cf.func[i], cf.args).ret)
    /\ cf.time[i] = Some(tf.t1[1] - tf.t0[1])

\* C14: compare_functions calls each callable once, the first before the
\* second, each in a time_function call of its own (a new Timer) with the
\* same arguments; result1/time1 and result2/time2 are what these calls
\* returned.  If the first callable raises, its exception leaves
\* compare_functions and the second is not called.
C14_CompareSequence ==
    /\ Len(cf.calls) <= 2
    /\ \A i \in 1..Len(cf.calls) :
          cf.calls[i] = [which |-> i, func |-> cf.func[i], args |-> cf.args,
                         timer |-> Timer_init]
    /\ cf.pc = "call2" => (CFFrameMatches(1) /\ Len(cf.calls) = 1)
    /\ cf.pc \in {"compare", "done"} => (CFFrameMatches(2) /\ Len(cf.calls) = 2)
    /\ cf.pc = "done" =>
          /\ cf.ret[1].result1 = Apply(cf.func[1], cf.args).ret
          /\ cf.ret[1].result2 = Apply(cf.func[2], cf.args).ret
          /\ Some(CFTime1) = cf.time[1]
          /\ Some(CFTime2) = cf.time[2]
    /\ (cf.pc \notin {"idle", "call1", "in1"}
          /\ Apply(cf.func[1], cf.args).exc # "none") =>
          /\ cf.pc = "raised"
          /\ cf.exc = [kind |-> Apply(cf.func[1], cf.args).exc, site |-> "func"]
          /\ Len(cf.calls) = 1
          /\ cf.ret = None

C14_Witness ==
    /\ cf.pc = "done"
    /\ cf.func[1] # cf.func[2]
    /\ cf.ret[1].result1 # cf.ret[1].result2
    /\ CFTime1 > 0
    /\ CFTime2 > CFTime1
\* ---- properties of Point ----
\* C15: p + o for a Point o returns a Point with the pairwise sums of the
\* coordinates and leaves both operands as they were; for an o that is not a
\* Point it raises TypeError and leaves the receiver as it was.
C15_PointAdd ==
    pt.last.op = "add" =>
        IF pt.last.other.type = "Point"
        THEN /\ pt.last.exc = "none"
             /\ pt.last.other = pt.last.pre[pt.last.oref]
             /\ pt.last.ret = Some([type |-> "Point",
                    x |-> pt.last.pre[pt.last.self].x + pt.last.other.x,
                    y |-> pt.last.pre[pt.last.self].y + pt.last.other.y])
             /\ pt.objs = pt.last.pre
        ELSE /\ pt.last.exc = "TypeError"
             /\ pt.last.ret = None
             /\ pt.objs = pt.last.pre

C15_Witness ==
    /\ pt.last.op = "add"
    /\ pt.last.oref \in PointNames
    /\ pt.last.oref # pt.last.self
    /\ pt.last.pre[pt.last.self] = Point(1, 2)
    /\ pt.last.other = Point(2, 0 - 1)
    /\ pt.last.ret = Some(Point(3, 1))
\* ---- properties of the queries of Timer ----
Queries == {"is_running", "elapsed", "str", "repr"}

\* C16: is_running() returns true exactly when a start time is recorded, and
\* is_running, elapsed (returning or raising), __str__ and __repr__ leave
\* both fields as they were.
C16_QueriesArePure ==
    /\ \A t \in DOMAIN timers :
          /\ is_running(timers[t]).exc = "none"
          /\ is_running(timers[t]).ret = Some(timers[t].start_time # None)
    /\ After("is_running") =>
          /\ last.exc = "none"
          /\ last.ret = Some(last.pre.start_time # None)
          /\ last.ret = Some(hist[last.t].startAt # None
                             /\ timers[last.t].start_time = hist[last.t].startAt)
    /\ last.op \in Queries => timers[last.t] = last.pre

C16_Witness ==
    /\ After("repr")
    /\ last.ret = Some([running |-> TRUE, elapsed |-> Some(2)])
    /\ timers[last.t] = last.pre
\* ---- properties of the state machine of Timer ----
\* what a complete cycle beginning in the current state of tm would leave
NextCycle(tm, clock) ==
    stop(IF Running(tm) THEN tm ELSE start(tm, clock).self, clock)

\* C17: in every reachable state exactly one of start and stop succeeds
\* (start iff Idle, stop iff Running) and the other raises; successful starts
\* and stops alternate between resets; and a further start/stop cycle that
\* stores a duration can always be run.
C17_NoTerminalState ==
    /\ ENABLED Next
    /\ \A t \in DOMAIN timers :
          /\ (start(timers[t], now).exc = "none") <=> ~Running(timers[t])
          /\ (stop(timers[t], now).exc = "none") <=> Running(timers[t])
          /\ start(timers[t], now).exc \in {"none", "AlreadyRunning"}
          /\ stop(timers[t], now).exc \in {"none", "NotRunning"}
          /\ hist[t].alternating
          /\ Running(timers[t]) <=> hist[t].phase = "start"
          /\ NextCycle(timers[t], now).exc = "none"
          /\ NextCycle(timers[t], now).self.elapsed_time # None
          /\ ~Running(NextCycle(timers[t], now).self)
    /\ (last.op \in {"start", "enter"} /\ last.exc = "none") =>
          (~Running(last.pre) /\ Running(timers[last.t]))
    /\ (last.op \in {"stop", "exit"} /\ last.exc = "none") =>
          (Running(last.pre) /\ ~Running(timers[last.t]))

\* a second cycle has overwritten the duration of the first
C17_Witness ==
    /\ After("stop")
    /\ last.exc = "none"
    /\ last.pre.elapsed_time # None
    /\ timers[last.t].elapsed_time # last.pre.elapsed_time

\* C18: elapsed() succeeds exactly when a stop has succeeded since
\* construction or the last reset, whether or not the timer is running; on a
\* Running timer with a completed cycle it returns that cycle's duration,
\* not one of the cycle in progress.
C18_ElapsedAvailability ==
    /\ \A t \in DOMAIN timers :
          /\ (elapsed(timers[t]).exc = "none") <=> hist[t].stopped
          /\ hist[t].stopped =>
                elapsed(timers[t]).ret =
                    Some(hist[t].cycle[1][2] - hist[t].cycle[1][1])
    /\ After("elapsed") =>
          /\ (last.exc = "none") <=> hist[last.t].stopped
          /\ last.exc \in {"none", "NeverRun"}
          /\ last.exc = "none" =>
                last.ret = Some(hist[last.t].cycle[1][2] - hist[last.t].cycle[1][1])

\* elapsed() on a Running timer: the value is the earlier cycle's, while the
\* cycle in progress has already lasted longer
C18_Witness ==
    /\ After("elapsed")
    /\ last.exc = "none"
    /\ Running(timers[last.t])
    /\ hist[last.t].startAt[1] >= hist[last.t].cycle[1][2]
    /\ last.ret = Some(1)
    /\ now - timers[last.t].start_time[1] = 2
\* ---- properties of two timers ----
\* the latest block of b was entered inside the block of a that is being left
NestedIn(b, a) == b # a /\ hist[b].scope = "closed" /\ a \in hist[b].within

BothStored(a, b) ==
    /\ ~Running(timers[a]) /\ ~Running(timers[b])
    /\ timers[a].elapsed_time # None /\ timers[b].elapsed_time # None

\* a call changes the fields of its receiver only
C19_Frame ==
    \A t \in DOMAIN timers : timers'[t] # timers[t] => last'.t = t

\* C19 as stated, for the nested blocks: once the blocks of two different
\* timers, one inside the other, are left, both timers are Idle with a stored
\* duration and the inner duration is not greater than the outer one.
C19_NestedAsStated ==
    After("exit") =>
        \A b \in DOMAIN timers :
            NestedIn(b, last.t) =>
                /\ BothStored(last.t, b)
                /\ timers[b].elapsed_time[1] <= timers[last.t].elapsed_time[1]

\* the same, when no start, stop or reset was called with success on either
\* timer since its block was entered
C19_NestedClean ==
    (After("exit") /\ hist[last.t].clean) =>
        /\ last.exc = "none"
        /\ \A b \in DOMAIN timers :
              (NestedIn(b, last.t) /\ hist[b].clean) =>
                  /\ BothStored(last.t, b)
                  /\ timers[b].elapsed_time[1] <= timers[last.t].elapsed_time[1]
                  /\ hist[last.t].cycle[1][1] <= hist[b].cycle[1][1]
                  /\ hist[b].cycle[1][2] <= hist[last.t].cycle[1][2]

\* C19 amended: a call on one timer, succeeding or failing, leaves the fields
\* of every other timer as they were; blocks of two different timers can be
\* nested, and if no start, stop or reset is called with success on either
\* timer inside its block, both end Idle with a stored duration, the inner
\* one not greater than the outer one.
C19_Independent == []C19_NestedClean /\ [][C19_Frame]_vars

C19_Witness ==
    /\ After("exit")
    /\ last.t = "t1"
    /\ NestedIn("t2", "t1")
    /\ hist["t1"].clean /\ hist["t2"].clean
    /\ timers["t2"].elapsed_time = Some(0)
    /\ timers["t1"].elapsed_time = Some(1)
\* ---- properties of the string rendering ----
\* the number of 10^-DEFAULT_PRECISION seconds a rendering shows
Shown(text) == text.whole * (10 ^ DEFAULT_PRECISION) + text.frac

Abs(i) == IF i < 0 THEN 0 - i ELSE i

\* C20: __str__ raises in no reachable state; it gives the 'not yet run'
\* sentinel exactly where elapsed() raises NeverRun (Idle or Running), and
\* otherwise the duration elapsed() returns, to DEFAULT_PRECISION decimals.
C20_StrAgreesWithElapsed ==
    /\ \A t \in DOMAIN timers :
          LET s == str(timers[t])
              e == elapsed(timers[t])
          IN  /\ s.exc = "none"
              /\ s.self = timers[t]
              /\ (s.ret = Some(NotYetRun)) <=> (e.exc = "NeverRun")
              /\ e.exc = "none" =>
                    /\ s.ret = Some(Format(e.ret[1]))
                    /\ s.ret[1].text = "seconds"
                    /\ 2 * Abs(Shown(s.ret[1]) * TicksPerMicro - e.ret[1])
                          <= TicksPerMicro
    /\ After("str") =>
          /\ last.exc = "none"
          /\ last.out = NoExc
          /\ last.ret = str(last.pre).ret
          /\ (last.ret = Some(NotYetRun)) <=> ~hist[last.t].stopped

\* rendering on a Running timer that has a completed cycle of two readings
C20_Witness ==
    /\ After("str")
    /\ Running(last.pre)
    /\ elapsed(last.pre).ret = Some(2)
    /\ last.ret = Some([text |-> "seconds", whole |-> 0, frac |-> 1])
====
